---- MODULE Spec2Model ----
(***************************************************************************)
(* Release checker for Atmosphere / Hekate (AtmosHekateMolnitor.py).       *)
(*                                                                         *)
(* The model follows the program: the persisted config file, the Python    *)
(* values load_config / save_config move between file and memory, the      *)
(* worker threads that fetch a release, the queued Qt signals they emit,   *)
(* and the handlers of MainWindow that run on the GUI thread.              *)
(***************************************************************************)
EXTENDS Integers, Sequences, FiniteSets, TLC

\* Threads whose signal is still unhandled at one time (the model's only numeric bound).
MaxThreads == 2

\* urlopen(req, timeout=10)
TimeoutSeconds == 10

-----------------------------------------------------------------------------
(* PROJECTS                                                                *)

ProjectNames == {"Atmosphere", "Hekate"}

PROJECTS ==
    [name \in ProjectNames |->
        IF name = "Atmosphere"
        THEN [key |-> "atmosphere",
              api_url |-> "api:Atmosphere-NX/Atmosphere",
              page_url |-> "page:Atmosphere-NX/Atmosphere",
              hos_support |-> "Latest supported HOS: 20.5.0 (Basic support)"]
        ELSE [key |-> "hekate",
              api_url |-> "api:CTCaer/hekate",
              page_url |-> "page:CTCaer/hekate",
              hos_support |-> "Latest supported HOS: 20.5.0"]]

ProjectKeys == {PROJECTS[n].key : n \in ProjectNames}
ApiUrls == {PROJECTS[n].api_url : n \in ProjectNames}

\* The catalog project an endpoint belongs to.
ProjectOfUrl(url) == CHOOSE n \in ProjectNames : PROJECTS[n].api_url = url

-----------------------------------------------------------------------------
(* Python values, as far as the program meets them.                        *)

PyNone == [t |-> "none"]
PyInt(n) == [t |-> "int", n |-> n]
PyStr(s) == [t |-> "str", s |-> s]
PyList(items) == [t |-> "list", items |-> items]
PyDict(d) == [t |-> "dict", d |-> d]

EmptyDict == PyDict(<<>>)

\* bool(v)
Truthy(v) ==
    CASE v.t = "none" -> FALSE
      [] v.t = "int" -> v.n # 0
      [] v.t = "str" -> v.s # ""
      [] v.t = "list" -> Len(v.items) > 0
      [] v.t = "dict" -> DOMAIN v.d # {}

\* The strings of the model that contain the text local_versions.
ContainsLocalVersions(s) == s \in {"local_versions", "my local_versions file"}

\* `"local_versions" in data` is defined for containers only.
InRaises(data) == data.t \in {"none", "int"}

LocalVersionsIn(data) ==
    CASE data.t = "dict" -> "local_versions" \in DOMAIN data.d
      [] data.t = "list" -> \E i \in 1..Len(data.items) : data.items[i] = PyStr("local_versions")
      [] data.t = "str" -> ContainsLocalVersions(data.s)
      [] OTHER -> FALSE

\* d[k] = v on a dict
DictSet(dict, k, v) ==
    PyDict([x \in DOMAIN dict.d \cup {k} |-> IF x = k THEN v ELSE dict.d[x]])

-----------------------------------------------------------------------------
(* JSON text, as a syntax tree: what json.load reads and json.dump writes. *)
(* An object is the sequence of its members as written, so a text may      *)
(* repeat a name; JBad is a text json.load rejects (empty, truncated).     *)

Missing == [j |-> "missing"]
JBad == [j |-> "bad"]
JNull == [j |-> "null"]
JNum(n) == [j |-> "num", n |-> n]
JStr(s) == [j |-> "str", s |-> s]
JArr(items) == [j |-> "arr", items |-> items]
JObj(members) == [j |-> "obj", members |-> members]

\* Order in which json.dump is taken to write the names of a dict.
NameOrder == <<"local_versions", "theme", "atmosphere", "hekate", "tag_name", "name",
               "body", "html_url", "published_at">>

RECURSIVE json_loads(_)
json_loads(doc) ==
    CASE doc.j = "null" -> PyNone
      [] doc.j = "num" -> PyInt(doc.n)
      [] doc.j = "str" -> PyStr(doc.s)
      [] doc.j = "arr" -> PyList([i \in 1..Len(doc.items) |-> json_loads(doc.items[i])])
      [] doc.j = "obj" ->
            LET ms == doc.members
                names == {ms[i][1] : i \in 1..Len(ms)}
                \* a repeated name keeps its last value
                last(k) == CHOOSE i \in 1..Len(ms) :
                              /\ ms[i][1] = k
                              /\ \A h \in 1..Len(ms) : ms[h][1] = k => h <= i
            IN  PyDict([k \in names |-> json_loads(ms[last(k)][2])])

RECURSIVE json_dumps(_)
json_dumps(v) ==
    CASE v.t = "none" -> JNull
      [] v.t = "int" -> JNum(v.n)
      [] v.t = "str" -> JStr(v.s)
      [] v.t = "list" -> JArr([i \in 1..Len(v.items) |-> json_dumps(v.items[i])])
      [] v.t = "dict" ->
            LET present == SelectSeq(NameOrder, LAMBDA k : k \in DOMAIN v.d)
            IN  JObj([i \in 1..Len(present) |-> <<present[i], json_dumps(v.d[present[i]])>>])

-----------------------------------------------------------------------------
(* Config load / save                                                      *)

DefaultConfig == PyDict([k \in {"local_versions"} |-> EmptyDict])

load_config(file) ==
    IF file = Missing THEN DefaultConfig
    ELSE IF file = JBad THEN DefaultConfig            \* json.load raises
    ELSE LET data == json_loads(file) IN
         IF InRaises(data) THEN DefaultConfig          \* TypeError on `not in`
         ELSE IF ~LocalVersionsIn(data)
              THEN IF data.t = "dict"
                   THEN DictSet(data, "local_versions", EmptyDict)
                   ELSE DefaultConfig                  \* TypeError on item assignment
              ELSE data

\* How an attempt to write the file can end.
SaveOutcomes == {"ok", "open_fails", "write_fails"}

\* A save_config that dumps the mapping alone instead of the whole config.
save_config_mapping_only(config, file, outcome) ==
    CASE outcome = "ok" -> json_dumps(config.d["local_versions"])
      [] outcome = "open_fails" -> file
      [] outcome = "write_fails" -> JBad

\* The file save_config leaves behind.
save_config(config, file, outcome) ==
    CASE outcome = "ok" -> json_dumps(config)
      [] outcome = "open_fails" -> file
      [] outcome = "write_fails" -> JBad      \* opened with "w": truncated, then dump raised

\* What save_config prints.
save_config_prints(outcome) == IF outcome = "ok" THEN "" ELSE "Error saving config:"

-----------------------------------------------------------------------------
(* GitHub fetcher                                                          *)

\* What the request to api_url can meet on the network.
TransportFailures == {"dns", "connection_refused", "tls", "connect_timeout", "http_status",
                      "response_timeout", "read_timeout", "connection_closed"}

\* The exception raised inside the try block for each failure: urlopen wraps what its
\* connect/send raises in URLError (HTTPError is a URLError); what getresponse() and
\* resp.read() raise arrives as it is.
ExceptionOf(failure) ==
    CASE failure \in {"dns", "connection_refused", "tls", "connect_timeout"} -> "URLError"
      [] failure = "http_status" -> "HTTPError"
      [] failure \in {"response_timeout", "read_timeout"} -> "TimeoutError"
      [] failure = "connection_closed" -> "RemoteDisconnected"

IsURLError(exc) == exc \in {"URLError", "HTTPError"}

PublishedAt == "2024-01-01T00:00:00Z"

\* str.strip() on the strings of the model.
Strip(s) ==
    CASE s = " 1.2.0\n" -> "1.2.0"
      [] s = "  " -> ""
      [] OTHER -> s

\* Bodies the endpoint may answer with.
ReleaseDoc(api_url, tag_name) ==
    JObj(<<<<"tag_name", tag_name>>, <<"name", JStr("Release")>>, <<"body", JStr("notes")>>,
           <<"html_url", JStr(PROJECTS[ProjectOfUrl(api_url)].page_url)>>,
           <<"published_at", JStr(PublishedAt)>>>>)

Responses(api_url) ==
    {[k |-> "raise", failure |-> f, decodable |-> TRUE, doc |-> JNull] : f \in TransportFailures}
    \cup {[k |-> "body", failure |-> "", decodable |-> FALSE, doc |-> JNull]}
    \cup {[k |-> "body", failure |-> "", decodable |-> TRUE, doc |-> d] :
            d \in {JBad, JArr(<<JNum(1)>>), JStr("Not Found"), JObj(<<>>),
                   JObj(<<<<"tag_name", JNull>>>>),
                   ReleaseDoc(api_url, JNum(5)),
                   ReleaseDoc(api_url, JStr("1.1.0")),
                   ReleaseDoc(api_url, JStr(" 1.2.0\n")),
                   ReleaseDoc(api_url, JStr("Unknown"))}}

NoInfo == [tag |-> "", name |-> "", body |-> "", html_url |-> "", published_at |-> ""]

\* (obj.get(field) or "").strip()
FieldValue(obj, field) ==
    LET got == IF field \in DOMAIN obj.d THEN obj.d[field] ELSE PyNone
    IN  IF Truthy(got) THEN got ELSE PyStr("")

Fields == {"tag_name", "name", "body", "html_url", "published_at"}

Returned(info) == [raised |-> "", info |-> info, msg |-> <<>>]
\* str(e) of the RuntimeError: the prefix and the text of the cause
Raised(prefix, detail) == [raised |-> "RuntimeError", info |-> NoInfo, msg |-> <<prefix, "...">>]

fetch_latest_release(response) ==
    IF response.k = "raise"
    THEN IF IsURLError(ExceptionOf(response.failure))
         THEN Raised("Network error: ", response.failure)
         ELSE Raised("Error: ", response.failure)
    ELSE IF ~response.decodable THEN Raised("Error: ", "UnicodeDecodeError")
    ELSE IF response.doc = JBad THEN Raised("Error: ", "JSONDecodeError")
    ELSE LET obj == json_loads(response.doc) IN
         IF obj.t # "dict" THEN Raised("Error: ", "AttributeError")           \* obj.get
         ELSE IF \E f \in Fields : FieldValue(obj, f).t # "str"
              THEN Raised("Error: ", "AttributeError")                         \* .strip
              ELSE Returned([tag |-> Strip(FieldValue(obj, "tag_name").s),
                             name |-> Strip(FieldValue(obj, "name").s),
                             body |-> Strip(FieldValue(obj, "body").s),
                             html_url |-> Strip(FieldValue(obj, "html_url").s),
                             published_at |-> Strip(FieldValue(obj, "published_at").s)])

-----------------------------------------------------------------------------
(* State                                                                   *)

VARIABLES
    file,                  \* content of CONFIG_FILE
    alive,                 \* the process runs (FALSE after an unhandled exception)
    config,                \* self.config
    current_project_name,  \* self.current_project_name
    current_release_info,  \* self.current_release_info (None or a release dict)
    fetch_thread,          \* self.fetch_thread: 0 for None, else the id of a thread
    threads,               \* the ReleaseFetcherThread objects whose signal is not handled yet
    events,                \* queued finished_ok / finished_error signals, oldest first
    local_value, latest_value, hos_value, published_value, status_value,
    changelog,             \* the labels and the changelog box
    btn_check,             \* "Check Now" is enabled
    dialog,                \* the message box raised by the last handler (<<>>: none)
    console,               \* what the last handler printed
    release_origin,        \* history: the endpoint current_release_info was fetched from
    save_failed,           \* history: a save_config of this launch has failed
    committed,             \* history, kept by CommitSpec: <<key, tag>> of the project's own
                           \* release the last commit was called for
    last                   \* history: the last handler run and how it ended

vars == <<file, alive, config, current_project_name, current_release_info, fetch_thread,
          threads, events, local_value, latest_value, hos_value, published_value,
          status_value, changelog, btn_check, dialog, console, release_origin,
          save_failed, committed, last>>

None == [none |-> TRUE]

-----------------------------------------------------------------------------
(* Helpers of MainWindow                                                   *)

get_current_project_info(name) == PROJECTS[name]

\* self.config.get("local_versions", {}).get(project_key) raises AttributeError
get_local_version_raises(cfg) ==
    \/ cfg.t # "dict"
    \/ /\ "local_versions" \in DOMAIN cfg.d
       /\ cfg.d["local_versions"].t # "dict"

get_local_version_for_project(cfg, project_key) ==
    IF "local_versions" \notin DOMAIN cfg.d THEN PyNone
    ELSE IF project_key \in DOMAIN cfg.d["local_versions"].d
         THEN cfg.d["local_versions"].d[project_key]
         ELSE PyNone

\* A set_local_version_for_project that files the version under the project's name.
set_local_version_under_name(cfg, project_key, version) ==
    LET base == IF "local_versions" \in DOMAIN cfg.d THEN cfg
                ELSE DictSet(cfg, "local_versions", EmptyDict)
        name == CHOOSE n \in ProjectNames : PROJECTS[n].key = project_key
    IN  DictSet(base, "local_versions",
                DictSet(base.d["local_versions"], name, PyStr(version)))

\* The new self.config; file and print-out are save_config's.
set_local_version_for_project(cfg, project_key, version) ==
    LET base == IF "local_versions" \in DOMAIN cfg.d THEN cfg
                ELSE DictSet(cfg, "local_versions", EmptyDict)
    IN  DictSet(base, "local_versions",
                DictSet(base.d["local_versions"], project_key, PyStr(version)))

\* update_local_version_label: raises when the lookup does, or when setText gets a non-string
update_local_version_label_raises(cfg, name) ==
    \/ get_local_version_raises(cfg)
    \/ LET local == get_local_version_for_project(cfg, PROJECTS[name].key)
       IN  Truthy(local) /\ local.t # "str"

update_local_version_label(cfg, name) ==
    LET local == get_local_version_for_project(cfg, PROJECTS[name].key)
    IN  IF Truthy(local) THEN local.s ELSE "Not set"

update_hos_support_label(name) == get_current_project_info(name).hos_support

\* A running thread: isRunning() holds until run() has returned.
isRunning(thread) == thread.pc # "finished"

\* The state of a process that has ended on an unhandled exception.
Exited(cfg, handler) ==
    [alive |-> FALSE, config |-> cfg, current_project_name |-> "Atmosphere",
     current_release_info |-> None, fetch_thread |-> 0, threads |-> <<>>,
     events |-> <<>>, local_value |-> "", latest_value |-> "", hos_value |-> "",
     published_value |-> "", status_value |-> <<>>, changelog |-> <<>>, btn_check |-> FALSE,
     dialog |-> <<>>, console |-> "", release_origin |-> "", save_failed |-> FALSE,
     committed |-> <<>>,
     last |-> <<handler, "raised">>]

\* MainWindow.__init__ on the file found at launch, start_check() included.
MainWindowInit(f) ==
    LET cfg == load_config(f)
        name == "Atmosphere"
    IN  IF update_local_version_label_raises(cfg, name) THEN Exited(cfg, "__init__")
        ELSE [alive |-> TRUE, config |-> cfg, current_project_name |-> name,
              current_release_info |-> None,
              fetch_thread |-> 1,
              threads |-> (1 :> [api_url |-> PROJECTS[name].api_url, pc |-> "fetching"]),
              events |-> <<>>,
              local_value |-> update_local_version_label(cfg, name),
              latest_value |-> "Unknown",
              hos_value |-> update_hos_support_label(name),
              published_value |-> "-",
              status_value |-> <<"Checking...">>,
              changelog |-> <<"No data yet. Press 'Check Now'.">>,
              btn_check |-> FALSE,
              dialog |-> <<>>, console |-> "", release_origin |-> "",
              save_failed |-> FALSE,
              committed |-> <<>>, last |-> <<"__init__", "done">>]

\* The process state is S (every variable but file).
IsState(S) ==
    /\ alive = S.alive /\ config = S.config
    /\ current_project_name = S.current_project_name
    /\ current_release_info = S.current_release_info
    /\ fetch_thread = S.fetch_thread /\ threads = S.threads
    /\ events = S.events /\ local_value = S.local_value /\ latest_value = S.latest_value
    /\ hos_value = S.hos_value /\ published_value = S.published_value
    /\ status_value = S.status_value /\ changelog = S.changelog /\ btn_check = S.btn_check
    /\ dialog = S.dialog /\ console = S.console /\ release_origin = S.release_origin
    /\ save_failed = S.save_failed /\ committed = S.committed /\ last = S.last

Becomes(S) ==
    /\ alive' = S.alive /\ config' = S.config
    /\ current_project_name' = S.current_project_name
    /\ current_release_info' = S.current_release_info
    /\ fetch_thread' = S.fetch_thread /\ threads' = S.threads
    /\ events' = S.events /\ local_value' = S.local_value /\ latest_value' = S.latest_value
    /\ hos_value' = S.hos_value /\ published_value' = S.published_value
    /\ status_value' = S.status_value /\ changelog' = S.changelog /\ btn_check' = S.btn_check
    /\ dialog' = S.dialog /\ console' = S.console /\ release_origin' = S.release_origin
    /\ save_failed' = S.save_failed /\ committed' = S.committed /\ last' = S.last

-----------------------------------------------------------------------------
(* ReleaseFetcherThread                                                    *)

\* A run() without its except clause: a failed fetch ends the thread with no signal.
ThreadRun_uncaught(tid, response) ==
    /\ alive
    /\ tid \in DOMAIN threads
    /\ threads[tid].pc = "fetching"
    /\ response \in Responses(threads[tid].api_url)
    /\ LET r == fetch_latest_release(response) IN
       events' = IF r.raised = "RuntimeError" THEN events
                 ELSE Append(events, [sig |-> "finished_ok", info |-> r.info, msg |-> r.msg,
                                      from |-> tid])
    /\ threads' = [threads EXCEPT ![tid].pc = "emitted"]
    /\ UNCHANGED <<file, alive, config, current_project_name, current_release_info,
                   fetch_thread, local_value, latest_value, hos_value,
                   published_value, status_value, changelog, btn_check, dialog, console,
                   release_origin, save_failed, committed,
                   last>>

\* run(): the request ends, and finished_ok or finished_error is queued for the GUI thread.
ThreadRun(tid, response) ==
    /\ alive
    /\ tid \in DOMAIN threads
    /\ threads[tid].pc = "fetching"
    /\ response \in Responses(threads[tid].api_url)
    /\ LET r == fetch_latest_release(response) IN
       events' = Append(events,
                        [sig |-> IF r.raised = "RuntimeError" THEN "finished_error"
                                 ELSE "finished_ok",
                         info |-> r.info, msg |-> r.msg, from |-> tid])
    /\ threads' = [threads EXCEPT ![tid].pc = "emitted"]
    /\ UNCHANGED <<file, alive, config, current_project_name, current_release_info,
                   fetch_thread, local_value, latest_value, hos_value,
                   published_value, status_value, changelog, btn_check, dialog, console,
                   release_origin, save_failed, committed,
                   last>>

\* A run() that emits finished_error once more on its way out.
ThreadExit_emits_again(tid) ==
    /\ alive
    /\ tid \in DOMAIN threads
    /\ threads[tid].pc = "emitted"
    /\ threads' = [threads EXCEPT ![tid].pc = "finished"]
    /\ events' = Append(events, [sig |-> "finished_error", info |-> NoInfo,
                                 msg |-> <<"Error: ", "...">>, from |-> tid])
    /\ UNCHANGED <<file, alive, config, current_project_name, current_release_info,
                   fetch_thread, local_value, latest_value, hos_value,
                   published_value, status_value, changelog, btn_check, dialog, console,
                   release_origin, save_failed, committed,
                   last>>

\* run() returns: the thread is no longer running.
ThreadExit(tid) ==
    /\ alive
    /\ tid \in DOMAIN threads
    /\ threads[tid].pc = "emitted"
    /\ threads' = [threads EXCEPT ![tid].pc = "finished"]
    /\ UNCHANGED <<file, alive, config, current_project_name, current_release_info,
                   fetch_thread, events, local_value, latest_value, hos_value,
                   published_value, status_value, changelog, btn_check, dialog, console,
                   release_origin, save_failed, committed,
                   last>>

-----------------------------------------------------------------------------
(* Events of MainWindow                                                    *)

on_project_changed(name) ==
    /\ alive
    /\ name \in ProjectNames
    /\ name # current_project_name          \* currentTextChanged
    /\ IF update_local_version_label_raises(config, name)
       THEN Becomes(Exited(config, "on_project_changed"))
       ELSE /\ current_project_name' = name
            /\ local_value' = update_local_version_label(config, name)
            /\ hos_value' = update_hos_support_label(name)
            /\ latest_value' = "Unknown"
            /\ published_value' = "-"
            /\ status_value' = <<"Idle">>
            /\ changelog' = <<<<"No data for this project yet. Press 'Check Now'.">>>>
            /\ dialog' = <<>>
            /\ console' = ""
            /\ last' = <<"on_project_changed", "done">>
            /\ UNCHANGED <<alive, config, current_release_info, fetch_thread, threads,
                           events, btn_check, release_origin, save_failed,
                           committed>>
    /\ UNCHANGED file

\* The id of the next thread object: the lowest one no live thread has.
NewThread ==
    CHOOSE i \in 1..(MaxThreads + 1) :
        /\ i \notin DOMAIN threads
        /\ \A h \in 1..(MaxThreads + 1) : h \notin DOMAIN threads => i <= h

\* The guard of start_check: `self.fetch_thread and self.fetch_thread.isRunning()`.
AlreadyRunning == fetch_thread # 0 /\ isRunning(threads[fetch_thread])

\* A start_check that leaves "Check Now" enabled.
start_check_keeps_enabled ==
    /\ alive
    /\ IF AlreadyRunning
       THEN /\ last' = <<"start_check", "ignored">>
            /\ UNCHANGED <<fetch_thread, threads, status_value, btn_check>>
       ELSE /\ Cardinality(DOMAIN threads) < MaxThreads
            /\ status_value' = <<"Checking...">>
            /\ btn_check' = btn_check
            /\ threads' = threads @@
                   (NewThread :> [api_url |-> get_current_project_info(current_project_name).api_url,
                                  pc |-> "fetching"])
            /\ fetch_thread' = NewThread
            /\ last' = <<"start_check", "started">>
    /\ dialog' = <<>>
    /\ console' = ""
    /\ UNCHANGED <<file, alive, config, current_project_name, current_release_info, events,
                   local_value, latest_value, hos_value, published_value, changelog,
                   release_origin, save_failed, committed>>

start_check ==
    /\ alive
    /\ IF AlreadyRunning
       THEN /\ last' = <<"start_check", "ignored">>
            /\ UNCHANGED <<fetch_thread, threads, status_value, btn_check>>
       ELSE /\ Cardinality(DOMAIN threads) < MaxThreads
            /\ status_value' = <<"Checking...">>
            /\ btn_check' = FALSE
            /\ threads' = threads @@
                   (NewThread :> [api_url |-> get_current_project_info(current_project_name).api_url,
                                  pc |-> "fetching"])
            /\ fetch_thread' = NewThread
            /\ last' = <<"start_check", "started">>
    /\ dialog' = <<>>
    /\ console' = ""
    /\ UNCHANGED <<file, alive, config, current_project_name, current_release_info, events,
                   local_value, latest_value, hos_value, published_value, changelog,
                   release_origin, save_failed, committed>>

\* The threads left once the signal of thread tid has been handled: nothing refers to
\* that thread any more.
Handled(tid) == [t \in DOMAIN threads \ {tid} |-> threads[t]]

Separator == <<"------------------------------------------------------------">>

\* A comparison that takes equal versions for an update.
Compare_inverted(tag, local, project_name) ==
    IF ~Truthy(local)
    THEN [status |-> <<"Local version not set.">>, dialog |-> <<>>]
    ELSE IF tag \notin {"Unknown", ""}
         THEN IF PyStr(tag) = local
              THEN [status |-> <<"New version available! (", tag, ")">>,
                    dialog |-> <<"information", "New Release Available", project_name,
                                 local.s, tag>>]
              ELSE [status |-> <<"You are up to date.">>, dialog |-> <<>>]
         ELSE [status |-> <<"Could not determine latest version.">>, dialog |-> <<>>]

\* The comparison of on_fetch_success: the status shown and the message box raised.
Compare(tag, local, project_name) ==
    IF ~Truthy(local)
    THEN [status |-> <<"Local version not set.">>, dialog |-> <<>>]
    ELSE IF tag \notin {"Unknown", ""}
         THEN IF PyStr(tag) # local
              THEN [status |-> <<"New version available! (", tag, ")">>,
                    dialog |-> <<"information", "New Release Available", project_name,
                                 local.s, tag>>]
              ELSE [status |-> <<"You are up to date.">>, dialog |-> <<>>]
         ELSE [status |-> <<"Could not determine latest version.">>, dialog |-> <<>>]

on_fetch_success ==
    /\ alive
    /\ events # <<>>
    /\ Head(events).sig = "finished_ok"
    /\ LET rel_info == Head(events).info
           tag == IF rel_info.tag # "" THEN rel_info.tag ELSE "Unknown"
           name == rel_info.name
           published == IF rel_info.published_at # "" THEN rel_info.published_at ELSE "-"
           body == rel_info.body
           header_lines ==
               (IF name # "" THEN <<<<"Release: ", name>>>> ELSE <<>>)
               \o (IF tag # "" THEN <<<<"Tag: ", tag>>>> ELSE <<>>)
               \o (IF published # "" /\ published # "-"
                   THEN <<<<"Published: ", published>>>> ELSE <<>>)
           header == IF header_lines # <<>> THEN header_lines \o <<Separator>> ELSE <<>>
           key == get_current_project_info(current_project_name).key
           local == get_local_version_for_project(config, key)
           cmp == Compare(tag, local, current_project_name)
       IN  /\ fetch_thread' = 0
           /\ current_release_info' = rel_info
           /\ release_origin' = threads[Head(events).from].api_url
           /\ latest_value' = tag
           /\ published_value' = published
           /\ changelog' = header \o <<<<body>>>>
           /\ status_value' = cmp.status
           /\ dialog' = cmp.dialog
    /\ btn_check' = TRUE
    /\ console' = ""
    /\ last' = <<"on_fetch_success", "done">>
    /\ threads' = Handled(Head(events).from)
    /\ events' = Tail(events)
    /\ UNCHANGED <<file, alive, config, current_project_name, local_value, hos_value,
                   save_failed>>

\* An on_fetch_error that reports the failure and leaves the release display as it was.
on_fetch_error_keeps_display ==
    /\ alive
    /\ events # <<>>
    /\ Head(events).sig = "finished_error"
    /\ fetch_thread' = 0
    /\ status_value' = <<"Error while checking.">>
    /\ btn_check' = TRUE
    /\ dialog' = <<"critical", "Error", "Failed to check latest release:">> \o Head(events).msg
    /\ console' = ""
    /\ last' = <<"on_fetch_error", "done">>
    /\ threads' = Handled(Head(events).from)
    /\ events' = Tail(events)
    /\ UNCHANGED <<file, alive, config, current_project_name, current_release_info,
                   local_value, latest_value, hos_value, published_value, changelog,
                   release_origin, save_failed, committed>>

on_fetch_error ==
    /\ alive
    /\ events # <<>>
    /\ Head(events).sig = "finished_error"
    /\ fetch_thread' = 0
    /\ latest_value' = "Error"
    /\ published_value' = "-"
    /\ changelog' = <<<<"Error while fetching release info.">>>>
    /\ status_value' = <<"Error while checking.">>
    /\ btn_check' = TRUE
    /\ dialog' = <<"critical", "Error", "Failed to check latest release:">> \o Head(events).msg
    /\ console' = ""
    /\ last' = <<"on_fetch_error", "done">>
    /\ threads' = Handled(Head(events).from)
    /\ events' = Tail(events)
    /\ UNCHANGED <<file, alive, config, current_project_name, current_release_info,
                   local_value, hos_value, release_origin, save_failed, committed>>

set_local_to_latest(outcome) ==
    /\ alive
    /\ outcome \in SaveOutcomes
    /\ IF current_release_info = None
       THEN /\ dialog' = <<"warning", "Warning", "No latest release info yet.">>
            /\ console' = ""
            /\ last' = <<"set_local_to_latest", "no release">>
            /\ UNCHANGED <<file, config, local_value, status_value, save_failed>>
       ELSE LET tag == current_release_info.tag IN
            IF tag = "" \/ tag = "Unknown"
            THEN /\ dialog' = <<"warning", "Warning", "Latest version is unknown. Cannot set local.">>
                 /\ console' = ""
                 /\ last' = <<"set_local_to_latest", "unknown tag">>
                 /\ UNCHANGED <<file, config, local_value, status_value, save_failed>>
            ELSE /\ config' = set_local_version_for_project(
                                  config, get_current_project_info(current_project_name).key, tag)
                 /\ file' = save_config(config', file, outcome)
                 /\ console' = save_config_prints(outcome)
                 /\ save_failed' = (save_failed \/ outcome # "ok")
                 /\ local_value' = tag
                 /\ status_value' = <<"Local version updated.">>
                 /\ dialog' = <<>>
                 /\ last' = <<"set_local_to_latest", "done">>
    /\ UNCHANGED <<alive, current_project_name, current_release_info, fetch_thread, threads,
                   events, latest_value, hos_value, published_value, changelog,
                   btn_check, release_origin>>

\* main(): the program is started (again); a process still running is quit first.
main ==
    /\ Becomes(MainWindowInit(file))
    /\ UNCHANGED file

-----------------------------------------------------------------------------
(* Specifications                                                          *)

WrittenConfigs ==
    {PyDict([k \in {"local_versions"} |-> PyDict(m)]) :
        m \in {<<>>, [k \in {"atmosphere"} |-> PyStr("1.1.0")]}}

\* Files the program itself leaves behind: none, one it wrote, one a failed write cut short.
ProgramFiles == {Missing, JBad} \cup {json_dumps(c) : c \in WrittenConfigs}

Init == \E f \in ProgramFiles : file = f /\ IsState(MainWindowInit(f))

\* The "Check Now" button: a click reaches start_check only while the button is enabled.
btn_check_clicked == btn_check /\ start_check

\* The program as its window drives it.
Next ==
    \/ main
    \/ btn_check_clicked
    \/ \E name \in ProjectNames : on_project_changed(name)
    \/ on_fetch_success /\ UNCHANGED committed
    \/ on_fetch_error
    \/ \E outcome \in SaveOutcomes : set_local_to_latest(outcome) /\ UNCHANGED committed
    \/ \E tid \in DOMAIN threads : \E response \in Responses(threads[tid].api_url) :
           ThreadRun(tid, response)
    \/ \E tid \in DOMAIN threads : ThreadExit(tid)

Spec == Init /\ [][Next]_vars

\* The handlers called as methods, start_check at any time, on a first run that meets
\* one release per endpoint or a refused connection.
ApiResponses(api_url) ==
    {r \in Responses(api_url) :
        \/ r.k = "raise" /\ r.failure = "connection_refused"
        \/ r.k = "body" /\ r.decodable /\ r.doc = ReleaseDoc(api_url, JStr("1.1.0"))}

ApiInit == file = Missing /\ IsState(MainWindowInit(Missing))

ApiNext ==
    \/ start_check
    \/ \E name \in ProjectNames : on_project_changed(name)
    \/ on_fetch_success /\ UNCHANGED committed
    \/ on_fetch_error
    \/ \E tid \in DOMAIN threads : \E response \in ApiResponses(threads[tid].api_url) :
           ThreadRun(tid, response)
    \/ \E tid \in DOMAIN threads : ThreadExit(tid)

ApiSpec == ApiInit /\ [][ApiNext]_vars

\* One run of the process, from launch on, in which every save succeeds.
SessionNext ==
    \/ btn_check_clicked
    \/ \E name \in ProjectNames : on_project_changed(name)
    \/ on_fetch_success /\ UNCHANGED committed
    \/ on_fetch_error
    \/ set_local_to_latest("ok") /\ UNCHANGED committed
    \/ \E tid \in DOMAIN threads : \E response \in Responses(threads[tid].api_url) :
           ThreadRun(tid, response)
    \/ \E tid \in DOMAIN threads : ThreadExit(tid)

\* The scheduling Qt and the OS give: a thread that can run does, and a queued signal
\* is handled.
FairSpec ==
    /\ Init
    /\ [][SessionNext]_vars
    /\ WF_vars(\E tid \in DOMAIN threads : \E response \in Responses(threads[tid].api_url) :
                   ThreadRun(tid, response))
    /\ WF_vars(on_fetch_success /\ UNCHANGED committed)
    /\ WF_vars(on_fetch_error)

\* Launches on a config file somebody else wrote or damaged.
LocalVersionsDoc(value) == JObj(<<<<"local_versions", value>>>>)

HandEditedFiles ==
    {JNull, JNum(5), JStr("abc"), JStr("my local_versions file"),
     JArr(<<>>), JArr(<<JStr("local_versions")>>),
     JObj(<<>>), JObj(<<<<"theme", JStr("dark")>>>>),
     LocalVersionsDoc(JNum(5)), LocalVersionsDoc(JNull), LocalVersionsDoc(JArr(<<>>)),
     LocalVersionsDoc(JObj(<<<<"atmosphere", JNum(5)>>>>)),
     LocalVersionsDoc(JObj(<<<<"hekate", JNum(5)>>>>)),
     LocalVersionsDoc(JObj(<<<<"atmosphere", JStr("")>>>>)),
     LocalVersionsDoc(JObj(<<<<"atmosphere", JStr("1.1.0")>>, <<"atmosphere", JStr("1.2.0")>>>>))}

LoadInit == \E f \in {Missing, JBad} \cup HandEditedFiles : file = f /\ IsState(MainWindowInit(f))

LoadSpec == LoadInit /\ [][SessionNext]_vars

\* A session observed for its commits: the history variable committed records the call
\* of a commit on the selected project's own release of non-empty tag, and forgets it
\* when a check of that project returns another tag.
CommitCalled ==
    committed' = IF /\ current_release_info # None
                    /\ current_release_info.tag # ""
                    /\ release_origin = get_current_project_info(current_project_name).api_url
                 THEN <<get_current_project_info(current_project_name).key,
                        current_release_info.tag>>
                 ELSE committed

CheckReturned ==
    LET origin_key == PROJECTS[ProjectOfUrl(threads[Head(events).from].api_url)].key
    IN  committed' = IF /\ committed # <<>>
                        /\ committed[1] = origin_key
                        /\ committed[2] # Head(events).info.tag
                     THEN <<>>
                     ELSE committed

CommitNext ==
    \/ btn_check_clicked
    \/ \E name \in ProjectNames : on_project_changed(name)
    \/ on_fetch_success /\ CheckReturned
    \/ on_fetch_error
    \/ set_local_to_latest("ok") /\ CommitCalled
    \/ \E tid \in DOMAIN threads : \E response \in Responses(threads[tid].api_url) :
           ThreadRun(tid, response)
    \/ \E tid \in DOMAIN threads : ThreadExit(tid)

CommitSpec == Init /\ [][CommitNext]_vars

-----------------------------------------------------------------------------
(* Properties                                                              *)

\* Requests on the network: the threads inside fetch_latest_release.
InFlight == {t \in DOMAIN threads : threads[t].pc = "fetching"}

\* The local version stored for the selected project (None when there is no entry).
StoredLocal ==
    get_local_version_for_project(config, get_current_project_info(current_project_name).key)

CurrentApiUrl == get_current_project_info(current_project_name).api_url

CommitStep == \E outcome \in SaveOutcomes : set_local_to_latest(outcome)

(* C1: at most one fetch is in flight at any time, and a start_check called while a    *)
(* fetch is in flight is a no-op: it starts no thread, replaces none, queues nothing.  *)
C1_MutualExclusion ==
    [][/\ Cardinality(InFlight') <= 1
       /\ (start_check /\ InFlight # {}) =>
              UNCHANGED <<threads, fetch_thread, events, status_value, btn_check>>]_vars

NoLocalVersion == <<"Local version not set.">>
UpToDate == <<"You are up to date.">>
UpdateAvailable(tag) == <<"New version available! (", tag, ")">>
Indeterminate == <<"Could not determine latest version.">>

(* C2: after a successful check, with the stored version absent or a non-empty string  *)
(* and the fetched tag empty or an ordinary version: no stored version gives           *)
(* NoLocalVersion, else an empty tag gives Indeterminate, else a differing tag gives   *)
(* UpdateAvailable(tag), else UpToDate; the notification is raised exactly for         *)
(* UpdateAvailable.                                                                    *)
C2_ComparisonLogic ==
    (/\ alive
     /\ last = <<"on_fetch_success", "done">>
     /\ current_release_info.tag # "Unknown"
     /\ StoredLocal = PyNone \/ (StoredLocal.t = "str" /\ StoredLocal.s # "")) =>
        LET tag == current_release_info.tag
            expected == IF StoredLocal = PyNone THEN NoLocalVersion
                        ELSE IF tag = "" THEN Indeterminate
                        ELSE IF tag # StoredLocal.s THEN UpdateAvailable(tag)
                        ELSE UpToDate
        IN  /\ status_value = expected
            /\ (dialog # <<>>) <=> (expected = UpdateAvailable(tag))
            /\ dialog # <<>> => dialog[1] = "information" /\ dialog[5] = tag

C2_Witness ==
    /\ last = <<"on_fetch_success", "done">>
    /\ StoredLocal = PyStr("1.1.0")
    /\ status_value = UpdateAvailable("1.2.0")
    /\ dialog # <<>>

(* C3: a commit with no release fetched in the session, or with a current release of   *)
(* empty tag, fails and leaves the mapping in memory and on disk as it was; a commit   *)
(* after a successful fetch of non-empty tag t for the still selected project succeeds *)
(* and the version stored for that project is then t.                                  *)
C3_CommitPrecondition ==
    [][CommitStep =>
          IF current_release_info = None \/ current_release_info.tag = ""
          THEN last'[2] # "done" /\ config' = config /\ file' = file
          ELSE release_origin = CurrentApiUrl =>
                  /\ last'[2] = "done"
                  /\ StoredLocal' = PyStr(current_release_info.tag)]_vars

(* C4: a commit is valid only with a release of non-empty tag fetched for the selected *)
(* project itself: whatever a commit stores under a key is the tag of a release        *)
(* fetched from that key's endpoint, and a commit for a project without one fails and  *)
(* changes nothing.                                                                    *)
C4_CommitPerProject ==
    [][CommitStep =>
          \/ /\ current_release_info # None
             /\ release_origin = CurrentApiUrl
          \/ last'[2] # "done" /\ config' = config /\ file' = file]_vars

\* A finished_ok is handled that a thread started for another project has sent.
StaleDelivery ==
    /\ on_fetch_success
    /\ threads[Head(events).from].api_url # CurrentApiUrl

(* C5: the result of a check started for another project than the one now selected is  *)
(* ignored: it is not stored as the current release, not displayed, not compared and   *)
(* not notified.                                                                       *)
C5_StaleResultIgnored ==
    [][StaleDelivery =>
          /\ UNCHANGED <<current_release_info, latest_value, published_value, changelog>>
          /\ status_value' \notin {NoLocalVersion, UpToDate, Indeterminate,
                                   UpdateAvailable(Head(events).info.tag)}
          /\ dialog' = <<>>]_vars

\* The file is not a record holding local_versions as a mapping of strings.
Corrupt(f) ==
    \/ f \in {Missing, JBad}
    \/ LET data == json_loads(f) IN
       \/ data.t # "dict"
       \/ "local_versions" \notin DOMAIN data.d
       \/ data.d["local_versions"].t # "dict"
       \/ \E k \in DOMAIN data.d["local_versions"].d : data.d["local_versions"].d[k].t # "str"

(* C6: whatever corrupt content the file has, load_config raises nothing and returns   *)
(* a state whose local_versions is an empty mapping, and the launch on it works.       *)
C6_LoadResetsCorruptState ==
    Corrupt(file) =>
        LET loaded == load_config(file) IN
        /\ loaded.t = "dict"
        /\ "local_versions" \in DOMAIN loaded.d
        /\ loaded.d["local_versions"] = EmptyDict
        /\ last[1] = "__init__" => alive

(* C7: as long as no save has failed, the file holds the configuration in memory: a    *)
(* restart, load_config on the file, returns the mapping the process holds.            *)
C7_WriteThrough ==
    (alive /\ ~save_failed) => load_config(file) = config

C7_Witness ==
    /\ alive /\ ~save_failed
    /\ last = <<"set_local_to_latest", "done">>
    /\ DOMAIN config.d["local_versions"].d = ProjectKeys
    /\ file # Missing

(* C8: a fetch that has been started is followed by its completion: the success or the *)
(* error is handled, no thread is left, fetch_thread is cleared and "Check Now" is     *)
(* enabled again, whatever projects were selected meanwhile.                           *)
C8_EveryCheckCompletes ==
    (InFlight # {}) ~>
        (/\ threads = <<>>
         /\ fetch_thread = 0
         /\ btn_check
         /\ last[1] \in {"on_fetch_success", "on_fetch_error"})

C8_Witness ==
    /\ last = <<"on_fetch_success", "done">>
    /\ release_origin # CurrentApiUrl
    /\ threads = <<>> /\ fetch_thread = 0 /\ btn_check

\* The class the claim gives a failed fetch.
ExpectedPrefix(response) == IF response.k = "raise" THEN "Network error: " ELSE "Error: "

(* C9: a fetch that fails on the transport (DNS, refused, TLS, a timeout while          *)
(* connecting or reading) is reported as a network error, every other failure as a     *)
(* non-network error, and every failure is reported.                                   *)
C9_ErrorClassification ==
    [][\A tid \in DOMAIN threads : \A response \in Responses(threads[tid].api_url) :
          (ThreadRun(tid, response) /\ fetch_latest_release(response).raised # "") =>
              LET ev == events'[Len(events')] IN
              /\ ev.sig = "finished_error"
              /\ ev.msg[1] = ExpectedPrefix(response)]_vars

(* C10: a commit whose save fails still completes, keeps the committed tag in memory,  *)
(* and surfaces the failure to its caller as a warning.                                *)
C10_FailedSaveWarns ==
    [][\A outcome \in SaveOutcomes \ {"ok"} :
          (set_local_to_latest(outcome) /\ last'[2] = "done") =>
              /\ alive'
              /\ StoredLocal' = PyStr(current_release_info.tag)
              /\ dialog' # <<>> /\ dialog'[1] = "warning"]_vars

\* The requests a step issues: the threads that enter fetch_latest_release in it.
Issued ==
    {t \in DOMAIN threads' :
        /\ threads'[t].pc = "fetching"
        /\ t \notin DOMAIN threads \/ threads[t].pc # "fetching"}

(* C11: no automatic retry: a request is issued only by a call of start_check, one per *)
(* accepted call, and the call that issues it is accepted while no check is in flight, *)
(* so that requests issued and calls accepted with no check in flight stay equal in    *)
(* number; handling a failure issues none.                                             *)
C11_NoAutomaticRetry ==
    [][/\ Cardinality(Issued) <= 1
       /\ Issued # {} => (start_check /\ InFlight = {})
       /\ (start_check /\ last' = <<"start_check", "started">>) => Cardinality(Issued) = 1
       /\ on_fetch_error => Issued = {}]_vars

\* The mapping has an entry for the selected project's key.
HasEntry ==
    get_current_project_info(current_project_name).key \in DOMAIN config.d["local_versions"].d

(* C12: absent is distinct from empty: a successful check produces NoLocalVersion if   *)
(* and only if the mapping has no entry for the selected project's key; an entry whose *)
(* value is the empty string is not "never set".                                       *)
C12_AbsentIsNotEmpty ==
    (alive /\ last = <<"on_fetch_success", "done">>) =>
        (status_value = NoLocalVersion <=> ~HasEntry)

Failed == <<"Error while checking.">>

(* C13: a failed check is labelled as failed, whatever succeeded before: handling the  *)
(* error produces Failed and a critical message carrying the error text, puts error    *)
(* markers in place of the latest version, the date and the changelog, produces none   *)
(* of the success outcomes, and leaves the workflow idle: no thread, button enabled.   *)
C13_FailedCheckLabelled ==
    [][on_fetch_error =>
          /\ status_value' = Failed
          /\ status_value' \notin {NoLocalVersion, UpToDate, Indeterminate}
                                  \cup {UpdateAvailable(t) : t \in {"1.1.0", "1.2.0", "Unknown"}}
          /\ dialog'[1] = "critical"
          /\ SubSeq(dialog', 4, Len(dialog')) = Head(events).msg
          /\ latest_value' = "Error"
          /\ published_value' = "-"
          /\ changelog' = <<<<"Error while fetching release info.">>>>
          /\ current_release_info # None =>
                /\ latest_value' # current_release_info.tag
                /\ \A i \in 1..Len(changelog') : changelog'[i] # <<current_release_info.body>>
          /\ fetch_thread' = 0 /\ threads' = <<>> /\ btn_check']_vars

C13_Witness ==
    /\ last = <<"on_fetch_error", "done">>
    /\ current_release_info # None /\ current_release_info.tag = "1.2.0"
    /\ latest_value = "Error"
    /\ status_value = Failed

\* The local-version mapping in memory.
Mapping == config.d["local_versions"].d

\* The operations that are not a commit.
OtherOperation ==
    \/ start_check
    \/ on_fetch_success
    \/ on_fetch_error
    \/ \E name \in ProjectNames : on_project_changed(name)
    \/ \E tid \in DOMAIN threads : \E response \in Responses(threads[tid].api_url) :
           ThreadRun(tid, response)
    \/ \E tid \in DOMAIN threads : ThreadExit(tid)

(* C14: only a commit mutates the mapping: start_check, the two deliveries, a project  *)
(* selection and the worker leave the mapping in memory and the file as they are; a    *)
(* key enters the mapping only in a commit that succeeds, and it is the key of the     *)
(* selected catalog project; the mapping never holds a key outside the catalog.        *)
C14_OnlyCommitMutates ==
    [][/\ UNCHANGED <<config, file>> \/ ~OtherOperation
       /\ DOMAIN Mapping' \ DOMAIN Mapping # {} =>
             /\ CommitStep
             /\ last' = <<"set_local_to_latest", "done">>
             /\ DOMAIN Mapping' \ DOMAIN Mapping =
                    {get_current_project_info(current_project_name).key}
       /\ DOMAIN Mapping \subseteq ProjectKeys
       /\ DOMAIN Mapping' \subseteq ProjectKeys]_vars

C14_Witness ==
    /\ alive
    /\ last = <<"on_fetch_error", "done">>
    /\ DOMAIN Mapping = ProjectKeys
    /\ file = json_dumps(config)

\* The completions of thread tid that wait in the queue.
Completions(tid) == {i \in 1..Len(events) : events[i].from = tid}

(* C15: exactly-once handoff: a thread that is fetching has sent nothing, a thread     *)
(* that has run has one completion queued, success with the release or error with the  *)
(* message; a handler takes one completion off the queue and with it the thread, so    *)
(* none is handled twice; the release handed over is the one the handler stores, and   *)
(* the worker's return changes neither the queue nor the release.                      *)
C15_ExactlyOnceHandoff ==
    [][/\ \A tid \in DOMAIN threads' :
             Cardinality({i \in 1..Len(events') : events'[i].from = tid}) =
                 IF threads'[tid].pc = "fetching" THEN 0 ELSE 1
       /\ \A i \in 1..Len(events') :
             /\ events'[i].from \in DOMAIN threads'
             /\ events'[i].sig \in {"finished_ok", "finished_error"}
             /\ events'[i].sig = "finished_ok" <=> events'[i].msg = <<>>
       /\ (on_fetch_success \/ on_fetch_error) =>
             /\ events' = Tail(events)
             /\ Head(events).from \notin DOMAIN threads'
             /\ Completions(Head(events).from) = {1}
       /\ on_fetch_success => current_release_info' = Head(events).info
       /\ (\E tid \in DOMAIN threads : ThreadExit(tid)) =>
             UNCHANGED <<events, current_release_info>>]_vars

C15_Witness ==
    /\ last = <<"on_fetch_error", "done">>
    /\ Len(events) = 1
    /\ events[1].sig = "finished_ok"
    /\ Cardinality(DOMAIN threads) = 1

(* C16: Indeterminate only for an empty tag: a successful check that returns a         *)
(* non-empty tag, the text Unknown included, with a local version stored for the       *)
(* selected project yields UpdateAvailable(tag) or UpToDate, never Indeterminate, and  *)
(* a commit of a release with a non-empty tag is accepted.                             *)
C16_IndeterminateOnlyForEmptyTag ==
    [][/\ (on_fetch_success /\ Head(events).info.tag # "" /\ Truthy(StoredLocal)) =>
             /\ status_value' \in {UpdateAvailable(Head(events).info.tag), UpToDate}
             /\ status_value' # Indeterminate
       /\ (CommitStep /\ current_release_info # None /\ current_release_info.tag # "") =>
             last' = <<"set_local_to_latest", "done">>]_vars

Checking == <<"Checking...">>
Idle == <<"Idle">>

(* C17: the displayed check state agrees with the in-flight state: while a fetch is in *)
(* flight the status shown is the checking state, and Idle is shown only when no fetch *)
(* is in flight, whatever projects are selected while a check runs.                    *)
C17_StatusAgreesWithInFlight ==
    alive =>
        /\ InFlight # {} => status_value = Checking
        /\ status_value = Idle => InFlight = {}

\* The checks that have been started and whose completion has not been handled yet.
Unfinished == DOMAIN threads

(* C18: "Check Now" is disabled exactly while a check is in flight, that is from its   *)
(* start until its completion has been handled: after construction and after every    *)
(* handler the button is disabled if and only if there is such a check, so it is not   *)
(* left disabled once the check has completed.                                         *)
C18_ButtonDisabledIffInFlight ==
    alive => (~btn_check <=> Unfinished # {})

C18_Witness ==
    /\ alive
    /\ last = <<"start_check", "started">>
    /\ current_release_info # None
    /\ ~btn_check /\ Unfinished # {}

(* C19: commit silences the notification: once a commit has been called on the         *)
(* release of the selected project P, of non-empty tag t, every later successful check *)
(* of P in the session that returns t yields UpToDate and raises no notification,      *)
(* until a check of P returns another tag (or a commit is called for another release); *)
(* and a commit repeated right after a commit changes nothing.                         *)
C19_CommitSilencesNotification ==
    [][/\ (/\ on_fetch_success
           /\ threads[Head(events).from].api_url = CurrentApiUrl
           /\ Head(events).info.tag # ""
           /\ committed = <<get_current_project_info(current_project_name).key,
                            Head(events).info.tag>>) =>
             /\ status_value' = UpToDate
             /\ dialog' = <<>>
       /\ (/\ set_local_to_latest("ok")
           /\ last = <<"set_local_to_latest", "done">>
           /\ console = "") =>
             UNCHANGED <<config, file, local_value, status_value, dialog, console, last,
                         current_release_info, latest_value, published_value, changelog>>]_vars
====
